---- MODULE Spec2Model ----
(***************************************************************************)
(* A model of the log batcher of github.com/MrAlias/otlpr (batcher.go):    *)
(* producers calling Append, the staleness poller goroutine, callers of    *)
(* Shutdown, the batch buffer and the chunking export adapter.             *)
(***************************************************************************)
EXTENDS Integers, Sequences, FiniteSets, TLC

\* ------------------------------------------------------------ bounds
\* Total number of Append calls with a non-nil record made by the producers.
MaxRecords == 2
\* The clock runs from StartTime to MaxTime.
MaxTime == 3
\* Longest group and largest chunk size handed to chunk() on its own.
MaxGroup == 7
MaxChunkN == 3
\* Largest capacity and number of operations of a batch followed on its own.
MaxCap == 2
MaxBatchOps == 4
\* Width in bits of the timestamp field and of the nanoseconds of an instant
\* (64 in the program).
TimeBits == 4
\* Longest key/value list, number of AddValues calls and largest verbosity
\* level (in absolute value) given to a Formatter followed on its own.
MaxKv == 2
MaxAdds == 2
MaxLevel == 18

\* ------------------------------------------------------------ threads
\* Goroutines are anonymous, so the model names slots for them: the calls of
\* Append run on the producers, the calls of Shutdown on the shutdowners, and
\* a new call always runs on the first free slot of its kind (two states that
\* differ only in which slot runs which call are the same program state).
ProducerSeq == <<"p1", "p2">>
ShutdownerSeq == <<"s1", "s2">>
Producers == {ProducerSeq[k] : k \in 1..Len(ProducerSeq)}
Shutdowners == {ShutdownerSeq[k] : k \in 1..Len(ShutdownerSeq)}
Poller == "poller"
Chunker == "chunker"
Threads == Producers \cup Shutdowners \cup {Poller, Chunker}

\* The Batcher configurations the model starts from.
MessagesValues == {0, 1, 2, 3}
TimeoutValues == {0, 1}
ExportNValues == {0, 1}

\* time.Time{} (the zero time, year 1) lies far before every other instant;
\* the Unix epoch is 0 and the batcher is constructed at StartTime.
ZeroTime == -100
StartTime == 1

NoThread == "none"
Nil == [id |-> 0, ts |-> 0]

VARIABLES
    conf,          \* the Batcher value start() was called on
    cap,           \* cap(*b.active)
    active,        \* *b.active: the records held, oldest first
    activeMu,      \* the holder of b.activeMu, or NoThread
    appender,      \* b.appender: "append" or "noop"
    wg,            \* b.wg's counter
    cancelled,     \* b.cancel() has been called (parent context done)
    shutdownOnce,  \* b.shutdownOnce: "fresh", "running" or "done"
    now,           \* the clock time.Now() reads
    pc,            \* each thread's position
    fn,            \* producer: the function b.appender.Load() returned, or "none"
    msg,           \* producer: the record of the Append call in progress
    lr,            \* the group a thread passed to b.export
    idx,           \* chunk's loop variable i of that call
    timestamp,     \* poll's local reference timestamp
    emptyAtCycle,  \* history: the buffer was empty when timestamp was last set
    nCalls,        \* number of Append calls with a non-nil record so far
    placed,        \* history: the records in the order batch.Append stored
                   \* them
    flushes,       \* history: the b.export invocations, in order
    calls,         \* history: the invocations of the export callback, in order
    heap,          \* the arrays allocated by make and append, in order (followed
                   \* only for a batch on its own)
    arr,           \* the index in heap of the backing array of *b
    groups,        \* the groups Flush returned: array, length, and as history
                   \* their contents on return
    ret,           \* the last operation on a batch on its own and its result
    values,        \* Formatter: f.values
    valuesAttr,    \* Formatter: f.valuesAttr
    added,         \* history: the lists passed to AddValues, in call order
    rec,           \* the last record FormatInfo or FormatError returned
    export         \* the callback newBatcher was given: "fn", the no-op "noop"
                   \* that start puts in place of nil, or "nil"

vars == <<conf, cap, active, activeMu, appender, wg, cancelled, shutdownOnce,
          now, pc, fn, msg, lr, idx, timestamp, emptyAtCycle, nCalls, placed,
          flushes, calls, heap, arr, groups, ret, values, valuesAttr, added,
          rec, export>>

\* The state of the Formatter.
fmtVars == <<values, valuesAttr, added, rec>>

\* ------------------------------------------------------------ helpers
Ids(s) == [k \in 1..Len(s) |-> s[k].id]

\* The concatenation of the groups of a sequence of export calls or flushes.
RECURSIVE Flatten(_)
Flatten(q) == IF q = <<>> THEN <<>> ELSE Flatten(SubSeq(q, 1, Len(q) - 1)) \o q[Len(q)].recs

\* The entries of q made by threads of kind k, in order.
By(q, k) == SelectSeq(q, LAMBDA e : e.by = k)

IsPrefix(a, b) == Len(a) <= Len(b) /\ a = SubSeq(b, 1, Len(a))

\* The number of times x occurs in the sequence q.
Count(q, x) == Cardinality({k \in 1..Len(q) : q[k] = x})

Kind(t) == IF t \in Producers THEN "append"
           ELSE IF t \in Shutdowners THEN "shutdown"
           ELSE IF t = Poller THEN "poll"
           ELSE "chunk"

\* t is the first idle slot of the sequence of slots q.
FirstIdle(t, q) ==
    \E k \in 1..Len(q) :
        /\ q[k] = t
        /\ pc[t] = "idle"
        /\ \A j \in 1..(k - 1) : pc[q[j]] # "idle"

\* start without lines 62-64: Messages is taken as given.
start_NoNormalize(b) == b

\* Batcher.start: a Messages of 0 is normalised to 1.
start(b) == IF b.Messages = 0 THEN [b EXCEPT !.Messages = 1] ELSE b

\* A newBatcher that wraps the callback by chunk also when ExportN is 0.
Chunked_NonNegative == conf.ExportN >= 0

\* newBatcher: the callback is wrapped by chunk when ExportN > 0.
Chunked == conf.ExportN > 0

\* newBatch: an empty slice of capacity n.
newBatch(n) == n

\* batch.Len
BatchLen(b) == Len(b)

\* uint64(n) of a signed number of nanoseconds (formatter.go, TimeUnixNano).
ToUint64(n) == n % (2 ^ TimeBits)

\* int64(u) of the unsigned timestamp field.
ToInt64(u) == IF u >= 2 ^ (TimeBits - 1) THEN u - 2 ^ TimeBits ELSE u

\* The instants time.Unix(0, n) can return; the zero time is none of them.
Instants == (0 - 2 ^ (TimeBits - 1))..(2 ^ (TimeBits - 1) - 1)

\* A Timestamp that returns the time of the newest record.
Timestamp_Last(b) == IF BatchLen(b) = 0 THEN ZeroTime ELSE ToInt64(b[Len(b)].ts)

\* batch.Timestamp: the zero time when empty, else the first record's time.
Timestamp(b) == IF BatchLen(b) = 0 THEN ZeroTime ELSE ToInt64(b[1].ts)

\* Go's append on a slice of length len and capacity c: the capacity after.
GrowCap(len, c) == IF len < c THEN c ELSE IF c = 0 THEN 1 ELSE 2 * c

\* A batch.Append that never reports the buffer full.
BatchAppend_NeverComplete(b, c, m) ==
    [items |-> Append(b, m), cap |-> GrowCap(Len(b), c), complete |-> FALSE]

\* A batch.Append that puts the record in front of the others.
BatchAppend_Front(b, c, m) ==
    LET nb == <<m>> \o b
        nc == GrowCap(Len(b), c)
    IN [items |-> nb, cap |-> nc, complete |-> (BatchLen(nb) = nc)]

\* batch.Append reporting the buffer full one record early.
BatchAppend_CompleteEarly(b, c, m) ==
    LET nb == Append(b, m)
        nc == GrowCap(Len(b), c)
    IN [items |-> nb, cap |-> nc, complete |-> (BatchLen(nb) >= nc - 1)]

\* batch.Append: the slice after, its capacity after, and the result.
BatchAppend(b, c, m) ==
    LET nb == Append(b, m)
        nc == GrowCap(Len(b), c)
    IN [items |-> nb, cap |-> nc, complete |-> (BatchLen(nb) = nc)]

\* A Flush that copies the records out and leaves them in the batch.
BatchFlush_NoReset(b) == [cp |-> b, items |-> b]

\* A Flush that returns the records newest first.
BatchFlush_Reversed(b) ==
    [cp |-> [k \in 1..Len(b) |-> b[Len(b) + 1 - k]], items |-> SubSeq(b, 1, 0)]

\* A Flush whose copy lacks the last record.
BatchFlush_DropLast(b) == [cp |-> SubSeq(b, 1, Len(b) - 1), items |-> SubSeq(b, 1, 0)]

\* batch.Flush: the copy returned and the slice left behind.
BatchFlush(b) == [cp |-> b, items |-> SubSeq(b, 1, 0)]

\* chunk passing the whole rest of the group instead of lr[i:j].
ChunkEnd_Whole(n, i, len) == len

\* chunk: the end j of the sub-group starting at i (0-based, half-open).
ChunkEnd(n, i, len) == IF i + n > len THEN len ELSE i + n

\* chunk with the loop condition i < len(lr) - 1.
ChunkMore_OffByOne(i, len) == i + 1 < len

\* chunk: the loop condition i < len(lr).
ChunkMore(i, len) == i < len

\* The sub-group lr[i:j] of Go, on 1-based sequences.
Slice(s, i, j) == SubSeq(s, i + 1, j)

\* ------------------------------------------------------------ initial state
\* The state newBatcher returns (lines 84-101) for the configuration c.
InitWith(c) ==
    /\ conf = c
    /\ cap = newBatch(start(c).Messages)
    /\ active = <<>>
    /\ activeMu = NoThread
    /\ appender = "append"
    /\ wg = 0
    /\ cancelled = FALSE
    /\ shutdownOnce = "fresh"
    /\ now = StartTime
    /\ fn = [p \in Producers |-> "none"]
    /\ msg = [p \in Producers |-> Nil]
    /\ idx = [t \in Threads |-> 0]
    /\ timestamp = ZeroTime
    /\ emptyAtCycle = TRUE
    /\ nCalls = 0
    /\ placed = <<>>
    /\ flushes = <<>>
    /\ calls = <<>>

\* The backing arrays are not followed.
NoRet == [op |-> "none", arg |-> Nil, val |-> FALSE]
NoStorage ==
    /\ heap = <<>>
    /\ arr = 0
    /\ groups = <<>>
    /\ ret = NoRet

\* No record has been formatted yet.
NoRec == [op |-> "none", level |-> 0, sev |-> 0, kv |-> <<>>, attrs |-> <<>>]

\* NewFormatter: no values added.
NewFormatter ==
    /\ values = <<>>
    /\ valuesAttr = <<>>
    /\ added = <<>>
    /\ rec = NoRec

\* A newBatcher that starts the poller whatever the Timeout.
PollerStarted_Always(c) == TRUE

\* newBatcher, line 95: the poller goroutine is started when Timeout > 0.
PollerStarted(c) == c.Timeout > 0

\* A start that passes the export function on as it is given.
startExport_Keep(expFn) == expFn

\* Batcher.start, lines 65-67: a nil export function is replaced by a no-op.
startExport(expFn) == IF expFn = "nil" THEN "noop" ELSE expFn

\* The state after Batcher.start(expFn), for every configuration; the poller
\* goroutine exists when Timeout > 0 (newBatcher, lines 95-97).
InitExp(expFn) ==
    /\ \E c \in [Messages : MessagesValues, Timeout : TimeoutValues,
                 ExportN : ExportNValues] : InitWith(c)
    /\ export = startExport(expFn)
    /\ NoStorage
    /\ NewFormatter
    /\ lr = [t \in Threads |-> <<>>]
    /\ pc = [t \in Threads |->
                IF t = Chunker THEN "off"
                ELSE IF t = Poller
                     THEN (IF PollerStarted(conf) THEN "start" ELSE "off")
                     ELSE "idle"]

\* A batcher started with an export function.
Init == InitExp("fn")

\* ------------------------------------------------------------ export
\* A thread entering its critical section without taking the lock.
Lock_NoOp(t) == activeMu' = activeMu

\* b.activeMu.Lock() by thread t (lines 109, 147, 161).
Lock(t) ==
    /\ activeMu = NoThread
    /\ activeMu' = t

\* Where a thread goes once b.export has returned.
AfterExport(t) == IF t = Chunker THEN "done" ELSE "unlock"

\* Entering b.export(g): chunk's loop makes no call at all on an empty group.
ExportEntry(t, g) ==
    IF Chunked /\ ~ChunkMore(0, Len(g)) THEN AfterExport(t) ELSE "export"

\* The group the next call of the callback carries.
NextGroup(t) ==
    IF Chunked
    THEN Slice(lr[t], idx[t], ChunkEnd(conf.ExportN, idx[t], Len(lr[t])))
    ELSE lr[t]

\* The export callback is entered (f(lr[i:j]) in chunk, or f(lr) directly);
\* the call of a nil function panics.
CallExport(t) ==
    /\ pc[t] = "export"
    /\ IF export = "nil"
       THEN /\ calls' = calls
            /\ pc' = [pc EXCEPT ![t] = "panic"]
       ELSE /\ calls' = Append(calls, [by |-> Kind(t),
                                       recs |-> Ids(NextGroup(t)),
                                       flush |-> Len(flushes)])
            /\ pc' = [pc EXCEPT ![t] = "incall"]
    /\ UNCHANGED <<export, fmtVars, heap, arr, groups, ret, conf, cap, active, activeMu, appender, wg, cancelled,
                   shutdownOnce, now, fn, msg, lr, idx, timestamp, emptyAtCycle, nCalls,
                   placed, flushes>>

\* The callback returns; chunk advances i and tests its loop condition.
ReturnExport(t) ==
    /\ pc[t] = "incall"
    /\ IF Chunked
       THEN /\ idx' = [idx EXCEPT ![t] = idx[t] + conf.ExportN]
            /\ pc' = [pc EXCEPT ![t] =
                        IF ChunkMore(idx'[t], Len(lr[t]))
                        THEN "export" ELSE AfterExport(t)]
       ELSE /\ idx' = idx
            /\ pc' = [pc EXCEPT ![t] = AfterExport(t)]
    /\ UNCHANGED <<export, fmtVars, heap, arr, groups, ret, conf, cap, active, activeMu, appender, wg, cancelled,
                   shutdownOnce, now, fn, msg, lr, timestamp, emptyAtCycle, nCalls,
                   placed, flushes, calls>>

\* ------------------------------------------------------------ Append
\* The record of the next Append call: the formatter stamps it with
\* time.Now() (internal/formatter.go, FormatInfo and FormatError).
NewRecord == [id |-> nCalls + 1, ts |-> ToUint64(now)]

\* An Append that lets a nil record through.
IsNil_Never(m) == FALSE

\* batcher.Append, line 140: msg == nil.
IsNil(m) == m = Nil

\* An Append that calls b.append whatever the appender holds.
LoadAppender_Default == "append"

\* batcher.Append, line 143: b.appender.Load().
LoadAppender == appender

\* batcher.Append (lines 139-141): a nil record is dropped.
AppendNil(p) ==
    /\ FirstIdle(p, ProducerSeq)
    /\ IsNil(Nil)
    /\ UNCHANGED vars

\* batcher.Append (lines 139-143): a non-nil record; the appender is loaded.
AppendCall(p) ==
    /\ FirstIdle(p, ProducerSeq)
    /\ nCalls < MaxRecords
    /\ \E m \in {Nil, NewRecord} :
        /\ ~IsNil(m)
        /\ msg' = [msg EXCEPT ![p] = m]
    /\ nCalls' = nCalls + 1
    /\ fn' = [fn EXCEPT ![p] = LoadAppender]
    /\ pc' = [pc EXCEPT ![p] = "call"]
    /\ UNCHANGED <<export, fmtVars, heap, arr, groups, ret, conf, cap, active, activeMu, appender, wg, cancelled,
                   shutdownOnce, now, lr, idx, timestamp, emptyAtCycle, placed, flushes,
                   calls>>

\* The loaded function is the no-op shutdown stored (line 157).
AppendNoop(p) ==
    /\ pc[p] = "call"
    /\ fn[p] = "noop"
    /\ pc' = [pc EXCEPT ![p] = "idle"]
    /\ msg' = [msg EXCEPT ![p] = Nil]
    /\ fn' = [fn EXCEPT ![p] = "none"]
    /\ UNCHANGED <<export, fmtVars, heap, arr, groups, ret, conf, cap, active, activeMu, appender, wg, cancelled,
                   shutdownOnce, now, lr, idx, timestamp, emptyAtCycle, nCalls, placed,
                   flushes, calls>>

\* batcher.append (lines 147-150): lock, batch.Append, and Flush when full.
AppendLocked(p) ==
    /\ pc[p] = "call"
    /\ fn[p] = "append"
    /\ Lock(p)
    /\ placed' = Append(placed, [id |-> msg[p].id])
    /\ LET r == BatchAppend(active, cap, msg[p])
           f == BatchFlush(r.items)
       IN /\ cap' = r.cap
          /\ IF r.complete
             THEN /\ active' = f.items
                  /\ lr' = [lr EXCEPT ![p] = f.cp]
                  /\ idx' = [idx EXCEPT ![p] = 0]
                  /\ flushes' = Append(flushes,
                                       [by |-> "append", recs |-> Ids(f.cp)])
                  /\ pc' = [pc EXCEPT ![p] = ExportEntry(p, f.cp)]
             ELSE /\ active' = r.items
                  /\ pc' = [pc EXCEPT ![p] = "unlock"]
                  /\ UNCHANGED <<lr, idx, flushes>>
    /\ UNCHANGED <<export, fmtVars, heap, arr, groups, ret, conf, appender, wg, cancelled, shutdownOnce, now, fn, msg,
                   timestamp, emptyAtCycle, nCalls, calls>>

\* batcher.append's deferred Unlock (line 148); Append returns.
AppendUnlock(p) ==
    /\ pc[p] = "unlock"
    /\ activeMu' = NoThread
    /\ pc' = [pc EXCEPT ![p] = "idle"]
    /\ msg' = [msg EXCEPT ![p] = Nil]
    /\ fn' = [fn EXCEPT ![p] = "none"]
    /\ lr' = [lr EXCEPT ![p] = <<>>]
    /\ idx' = [idx EXCEPT ![p] = 0]
    /\ UNCHANGED <<export, fmtVars, heap, arr, groups, ret, conf, cap, active, appender, wg, cancelled, shutdownOnce,
                   now, timestamp, emptyAtCycle, nCalls, placed, flushes, calls>>

\* ------------------------------------------------------------ Shutdown
\* A Shutdown that runs its body on every call.
OnceFirst_Always == TRUE

\* sync.Once: the body has not been run yet.
OnceFirst == shutdownOnce = "fresh"

\* A Once that lets a second caller return while the body still runs.
OnceBlocks_Never == FALSE

\* sync.Once: Do does not return in a caller while the body runs in another.
OnceBlocks == shutdownOnce = "running"

\* batcher.Shutdown (line 154): sync.Once.Do. The first caller runs the body;
\* Do lets no other caller through until the body has returned, and then
\* returns at once.
ShutdownCall(s) ==
    /\ FirstIdle(s, ShutdownerSeq)
    /\ ~OnceBlocks
    /\ IF OnceFirst
       THEN /\ shutdownOnce' = "running"
            /\ pc' = [pc EXCEPT ![s] = "store"]
       ELSE /\ shutdownOnce' = shutdownOnce
            /\ pc' = [pc EXCEPT ![s] = "returned"]
    /\ UNCHANGED <<export, fmtVars, heap, arr, groups, ret, conf, cap, active, activeMu, appender, wg, cancelled, now,
                   fn, msg, lr, idx, timestamp, emptyAtCycle, nCalls, placed, flushes, calls>>

\* A shutdown that goes on to the drain without replacing the appender.
ShutdownStore_NoSwap(s) ==
    /\ pc[s] = "store"
    /\ pc' = [pc EXCEPT ![s] = "lock"]
    /\ UNCHANGED <<export, fmtVars, heap, arr, groups, ret, conf, cap, active, activeMu,
                   appender, wg, cancelled, shutdownOnce, now, fn, msg, lr,
                   idx, timestamp, emptyAtCycle, nCalls, placed, flushes,
                   calls>>

\* shutdown, line 157: the appender is replaced by the no-op.
ShutdownStore(s) ==
    /\ pc[s] = "store"
    /\ appender' = "noop"
    /\ pc' = [pc EXCEPT ![s] = "lock"]
    /\ UNCHANGED <<export, fmtVars, heap, arr, groups, ret, conf, cap, active, activeMu, wg, cancelled, shutdownOnce,
                   now, fn, msg, lr, idx, timestamp, emptyAtCycle, nCalls, placed, flushes,
                   calls>>

\* shutdown, lines 161-162: lock, Flush, and enter b.export.
ShutdownLocked(s) ==
    /\ pc[s] = "lock"
    /\ Lock(s)
    /\ LET f == BatchFlush(active)
       IN /\ active' = f.items
          /\ lr' = [lr EXCEPT ![s] = f.cp]
          /\ idx' = [idx EXCEPT ![s] = 0]
          /\ flushes' = Append(flushes, [by |-> "shutdown", recs |-> Ids(f.cp)])
          /\ pc' = [pc EXCEPT ![s] = ExportEntry(s, f.cp)]
    /\ UNCHANGED <<export, fmtVars, heap, arr, groups, ret, conf, cap, appender, wg, cancelled, shutdownOnce, now, fn,
                   msg, timestamp, emptyAtCycle, nCalls, placed, calls>>

\* shutdown, line 163.
ShutdownUnlock(s) ==
    /\ pc[s] = "unlock"
    /\ activeMu' = NoThread
    /\ pc' = [pc EXCEPT ![s] = "cancel"]
    /\ lr' = [lr EXCEPT ![s] = <<>>]
    /\ idx' = [idx EXCEPT ![s] = 0]
    /\ UNCHANGED <<export, fmtVars, heap, arr, groups, ret, conf, cap, active, appender, wg, cancelled, shutdownOnce,
                   now, fn, msg, timestamp, emptyAtCycle, nCalls, placed, flushes, calls>>

\* shutdown, line 166: b.cancel().
ShutdownCancel(s) ==
    /\ pc[s] = "cancel"
    /\ cancelled' = TRUE
    /\ pc' = [pc EXCEPT ![s] = "wait"]
    /\ UNCHANGED <<export, fmtVars, heap, arr, groups, ret, conf, cap, active, activeMu, appender, wg, shutdownOnce,
                   now, fn, msg, lr, idx, timestamp, emptyAtCycle, nCalls, placed, flushes,
                   calls>>

\* shutdown, lines 167-173: b.wg.Wait() returns when the counter is zero; the
\* body returns and Once marks it done.
ShutdownWait(s) ==
    /\ pc[s] = "wait"
    /\ wg = 0
    /\ shutdownOnce' = "done"
    /\ pc' = [pc EXCEPT ![s] = "returned"]
    /\ UNCHANGED <<export, fmtVars, heap, arr, groups, ret, conf, cap, active, activeMu, appender, wg, cancelled, now,
                   fn, msg, lr, idx, timestamp, emptyAtCycle, nCalls, placed, flushes, calls>>

\* ------------------------------------------------------------ poll
\* A poller whose deadline is its reference timestamp itself.
Deadline_NoTimeout == timestamp

\* poll's deadline (line 121).
Deadline == timestamp + conf.Timeout

\* A reset that flushes whatever the buffer holds.
ResetSkips_EmptyOnly(ts, ref) == ts = ZeroTime

\* A reset that never finds anything to flush.
ResetSkips_Always(ts, ref) == TRUE

\* reset's test with !ts.Before(timestamp) in place of ts.After(timestamp).
ResetSkips_NonStrict(ts, ref) == ts = ZeroTime \/ ts >= ref

\* reset's test (line 112): nothing to flush at this deadline.
ResetSkips(ts, ref) == ts = ZeroTime \/ ts > ref

\* poll, lines 104-107: the goroutine registers itself and reads the clock.
PollStart ==
    /\ pc[Poller] = "start"
    /\ wg' = wg + 1
    /\ timestamp' = now
    /\ emptyAtCycle' = (active = <<>>)
    /\ pc' = [pc EXCEPT ![Poller] = "loop"]
    /\ UNCHANGED <<export, fmtVars, heap, arr, groups, ret, conf, cap, active, activeMu, appender, cancelled,
                   shutdownOnce, now, fn, msg, lr, idx, nCalls, placed,
                   flushes, calls>>

\* A poll that returns without the deferred b.wg.Done().
PollReturn_NoDone ==
    /\ wg' = wg
    /\ pc' = [pc EXCEPT ![Poller] = "stopped"]
    /\ UNCHANGED <<export, fmtVars, heap, arr, groups, ret, conf, cap, active, activeMu, appender, cancelled,
                   shutdownOnce, now, fn, msg, lr, idx, timestamp, emptyAtCycle, nCalls,
                   placed, flushes, calls>>

\* poll returns (line 134); the deferred b.wg.Done() runs.
PollReturn ==
    /\ wg' = wg - 1
    /\ pc' = [pc EXCEPT ![Poller] = "stopped"]
    /\ UNCHANGED <<export, fmtVars, heap, arr, groups, ret, conf, cap, active, activeMu, appender, cancelled,
                   shutdownOnce, now, fn, msg, lr, idx, timestamp, emptyAtCycle, nCalls,
                   placed, flushes, calls>>

\* poll, lines 121-135: a context made from a cancelled parent is Canceled,
\* one made after its deadline is DeadlineExceeded, any other has to wait.
PollLoop ==
    /\ pc[Poller] = "loop"
    /\ IF cancelled
       THEN PollReturn
       ELSE /\ pc' = [pc EXCEPT ![Poller] =
                        IF now >= Deadline THEN "reset" ELSE "wait"]
            /\ UNCHANGED <<export, fmtVars, heap, arr, groups, ret, conf, cap, active, activeMu, appender, wg,
                           cancelled, shutdownOnce, now, fn, msg, lr, idx,
                           timestamp, emptyAtCycle, nCalls, placed, flushes, calls>>

\* <-ctx.Done() (line 123) ends because the deadline passed.
PollDeadline ==
    /\ pc[Poller] = "wait"
    /\ now >= Deadline
    /\ pc' = [pc EXCEPT ![Poller] = "reset"]
    /\ UNCHANGED <<export, fmtVars, heap, arr, groups, ret, conf, cap, active, activeMu, appender, wg, cancelled,
                   shutdownOnce, now, fn, msg, lr, idx, timestamp, emptyAtCycle, nCalls,
                   placed, flushes, calls>>

\* A wait that the cancellation of the parent does not end.
PollCanceled_Never == FALSE

\* <-ctx.Done() (line 123) ends because the parent was cancelled.
PollCanceled ==
    /\ pc[Poller] = "wait"
    /\ cancelled
    /\ PollReturn

\* reset, lines 109-114: the buffer is empty or younger than the reference;
\* its timestamp is returned and becomes the reference.
PollSkip ==
    /\ pc[Poller] = "reset"
    /\ activeMu = NoThread
    /\ ResetSkips(Timestamp(active), timestamp)
    /\ timestamp' = Timestamp(active)
    /\ emptyAtCycle' = (active = <<>>)
    /\ pc' = [pc EXCEPT ![Poller] = "loop"]
    /\ UNCHANGED <<export, fmtVars, heap, arr, groups, ret, conf, cap, active, activeMu, appender, wg, cancelled,
                   shutdownOnce, now, fn, msg, lr, idx, nCalls, placed,
                   flushes, calls>>

\* reset, lines 109-116: the buffer is stale; Flush and enter b.export.
PollFlush ==
    /\ pc[Poller] = "reset"
    /\ activeMu = NoThread
    /\ ~ResetSkips(Timestamp(active), timestamp)
    /\ activeMu' = Poller
    /\ LET f == BatchFlush(active)
       IN /\ active' = f.items
          /\ lr' = [lr EXCEPT ![Poller] = f.cp]
          /\ idx' = [idx EXCEPT ![Poller] = 0]
          /\ flushes' = Append(flushes, [by |-> "poll", recs |-> Ids(f.cp)])
          /\ pc' = [pc EXCEPT ![Poller] = ExportEntry(Poller, f.cp)]
    /\ UNCHANGED <<export, fmtVars, heap, arr, groups, ret, conf, cap, appender, wg, cancelled, shutdownOnce, now, fn,
                   msg, timestamp, emptyAtCycle, nCalls, placed, calls>>

\* reset, lines 117-118 and 130: time.Now() is returned, the lock released.
PollUnlock ==
    /\ pc[Poller] = "unlock"
    /\ timestamp' = now
    /\ emptyAtCycle' = (active = <<>>)
    /\ activeMu' = NoThread
    /\ pc' = [pc EXCEPT ![Poller] = "loop"]
    /\ lr' = [lr EXCEPT ![Poller] = <<>>]
    /\ idx' = [idx EXCEPT ![Poller] = 0]
    /\ UNCHANGED <<export, fmtVars, heap, arr, groups, ret, conf, cap, active, appender, wg, cancelled, shutdownOnce,
                   now, fn, msg, nCalls, placed, flushes, calls>>

\* ------------------------------------------------------------ time
\* The clock advances.
Tick ==
    /\ now < MaxTime
    /\ now' = now + 1
    /\ UNCHANGED <<export, fmtVars, heap, arr, groups, ret, conf, cap, active, activeMu, appender, wg, cancelled,
                   shutdownOnce, pc, fn, msg, lr, idx, timestamp, emptyAtCycle, nCalls,
                   placed, flushes, calls>>

\* ------------------------------------------------------------ specification
\* The steps of an Append call once the appender is loaded.
ProducerRun(p) ==
    \/ AppendLocked(p)
    \/ CallExport(p)
    \/ ReturnExport(p)
    \/ AppendUnlock(p)

\* One step of a producer.
ProducerNext(p) ==
    \/ AppendNil(p)
    \/ AppendCall(p)
    \/ AppendNoop(p)
    \/ ProducerRun(p)

\* One step of a caller of Shutdown.
ShutdownNext(s) ==
    \/ ShutdownCall(s)
    \/ ShutdownStore(s)
    \/ ShutdownLocked(s)
    \/ CallExport(s)
    \/ ReturnExport(s)
    \/ ShutdownUnlock(s)
    \/ ShutdownCancel(s)
    \/ ShutdownWait(s)

\* One step of the poller while its parent context is not cancelled.
PollRun ==
    \/ PollStart
    \/ PollLoop
    \/ PollDeadline
    \/ PollSkip
    \/ PollFlush
    \/ CallExport(Poller)
    \/ ReturnExport(Poller)
    \/ PollUnlock

PollNext ==
    \/ PollRun
    \/ PollCanceled

Next ==
    \/ \E p \in Producers : ProducerNext(p)
    \/ \E s \in Shutdowners : ShutdownNext(s)
    \/ PollNext
    \/ Tick

Spec == Init /\ [][Next]_vars

\* ------------------------------------------------------------ poller alone
\* A batcher with a poller on which Shutdown is not called: producers, the
\* poller and the clock. Every goroutine that can take a step eventually
\* does (the Go scheduler is preemptive and sync.Mutex does not starve a
\* waiter), and time passes; a producer need not call Append again.
InitPoll == Init /\ conf.Timeout > 0

NextPoll ==
    \/ \E p \in Producers : AppendNil(p)
    \/ \E p \in Producers : AppendCall(p)
    \/ \E p \in Producers : ProducerRun(p)
    \/ PollRun
    \/ Tick

PollSpec ==
    /\ InitPoll
    /\ [][NextPoll]_vars
    /\ WF_vars(PollRun)
    /\ WF_vars(Tick)
    /\ \A p \in Producers : WF_vars(ProducerRun(p))

\* ------------------------------------------------------------ fair scheduling
\* The whole batcher under a fair scheduler: a goroutine that can take a step
\* eventually takes it (the Go scheduler is preemptive, sync.Mutex hands the
\* lock to a waiter that has waited long, and the export callback returns).
\* Nobody is obliged to call Append or Shutdown, and time need not pass.
LiveSpec ==
    /\ Init
    /\ [][Next]_vars
    /\ \A p \in Producers : WF_vars(AppendNoop(p) \/ ProducerRun(p))
    /\ \A s \in Shutdowners : WF_vars(pc[s] # "idle" /\ ShutdownNext(s))
    /\ WF_vars(PollNext)

\* ------------------------------------------------------------ nil exporter
\* The batcher started with a nil export function, under the same fair
\* scheduler.
InitNil == InitExp("nil")

NilSpec ==
    /\ InitNil
    /\ [][Next]_vars
    /\ \A p \in Producers : WF_vars(AppendNoop(p) \/ ProducerRun(p))
    /\ \A s \in Shutdowners : WF_vars(pc[s] # "idle" /\ ShutdownNext(s))
    /\ WF_vars(PollNext)

\* ------------------------------------------------------------ chunk alone
\* chunk(n, f) applied to a group of m records, as TestChunk applies it; the
\* case of the test, chunk(10, f) on 25 records, is among the inputs.
TestChunkCase == <<10, 25>>

Group(m) == [k \in 1..m |-> [id |-> k, ts |-> 0]]

InitChunk ==
    /\ \E nm \in ((1..MaxChunkN) \X (0..MaxGroup)) \cup {TestChunkCase} :
        /\ InitWith([Messages |-> 1, Timeout |-> 0, ExportN |-> nm[1]])
        /\ lr = [t \in Threads |-> IF t = Chunker THEN Group(nm[2]) ELSE <<>>]
    /\ export = startExport("fn")
    /\ NoStorage
    /\ NewFormatter
    /\ pc = [t \in Threads |->
                IF t = Chunker THEN ExportEntry(Chunker, lr[Chunker])
                ELSE "off"]

NextChunk ==
    \/ CallExport(Chunker)
    \/ ReturnExport(Chunker)

ChunkSpec == InitChunk /\ [][NextChunk]_vars

\* ------------------------------------------------------------ batch alone
\* A batch made by newBatch(n) on which Append, Flush and Timestamp are
\* called in any order, with its backing arrays: make and an append beyond
\* the capacity allocate a new array, an append within the capacity writes
\* into the backing array, and (*b)[:0] keeps the backing array.
BatchTimes == {0, 1, 2 ^ (TimeBits - 1), 2 ^ TimeBits - 1}

\* make(batch, n, c): a new array of c slots of which the first n are s.
NewArray(s, c) == [k \in 1..c |-> IF k <= Len(s) THEN s[k] ELSE Nil]

\* A Flush that returns the view (*b)[:len] of the backing array.
FlushArray_View == arr

\* Flush, lines 200-203: the array of the group returned is the one make
\* allocated.
FlushArray == Len(heap) + 1

\* What a holder of the group g reads in it.
GroupContents(g) == SubSeq(heap[g.arr], 1, g.len)

InitBatch ==
    /\ \E n \in 0..MaxCap :
        /\ conf = [Messages |-> n, Timeout |-> 0, ExportN |-> 0]
        /\ cap = newBatch(n)
        /\ heap = <<NewArray(<<>>, newBatch(n))>>
    /\ arr = 1
    /\ groups = <<>>
    /\ ret = NoRet
    /\ NewFormatter
    /\ export = startExport("fn")
    /\ active = <<>>
    /\ activeMu = NoThread
    /\ appender = "append"
    /\ wg = 0
    /\ cancelled = FALSE
    /\ shutdownOnce = "fresh"
    /\ now = StartTime
    /\ pc = [t \in Threads |-> "off"]
    /\ fn = [p \in Producers |-> "none"]
    /\ msg = [p \in Producers |-> Nil]
    /\ lr = [t \in Threads |-> <<>>]
    /\ idx = [t \in Threads |-> 0]
    /\ timestamp = ZeroTime
    /\ emptyAtCycle = TRUE
    /\ nCalls = 0
    /\ placed = <<>>
    /\ flushes = <<>>
    /\ calls = <<>>

BatchOps == nCalls + Len(groups)

\* batch.Append(m) (lines 194-197).
BatchDoAppend ==
    /\ BatchOps < MaxBatchOps
    /\ \E t \in BatchTimes :
        LET m == [id |-> nCalls + 1, ts |-> t]
            r == BatchAppend(active, cap, m)
        IN /\ active' = r.items
           /\ cap' = r.cap
           /\ ret' = [op |-> "Append", arg |-> m, val |-> r.complete]
           /\ IF Len(active) < cap
              THEN /\ heap' = [heap EXCEPT ![arr][Len(active) + 1] = m]
                   /\ arr' = arr
              ELSE /\ heap' = Append(heap, NewArray(Append(active, m), r.cap))
                   /\ arr' = Len(heap) + 1
    /\ nCalls' = nCalls + 1
    /\ UNCHANGED <<export, fmtVars, groups, conf, activeMu, appender, wg, cancelled,
                   shutdownOnce, now, pc, fn, msg, lr, idx, timestamp,
                   emptyAtCycle, placed, flushes, calls>>

\* batch.Flush() (lines 199-204).
BatchDoFlush ==
    /\ BatchOps < MaxBatchOps
    /\ LET f == BatchFlush(active)
       IN /\ active' = f.items
          /\ heap' = Append(heap, NewArray(f.cp, Len(f.cp)))
          /\ groups' = Append(groups, [arr |-> FlushArray, len |-> Len(f.cp),
                                       was |-> f.cp])
          /\ ret' = [op |-> "Flush", arg |-> Nil, val |-> f.cp]
    /\ UNCHANGED <<export, fmtVars, arr, conf, cap, activeMu, appender, wg, cancelled,
                   shutdownOnce, now, pc, fn, msg, lr, idx, timestamp,
                   emptyAtCycle, nCalls, placed, flushes, calls>>

\* batch.Timestamp() (lines 187-192).
BatchDoTimestamp ==
    /\ ret' = [op |-> "Timestamp", arg |-> Nil, val |-> Timestamp(active)]
    /\ UNCHANGED <<export, fmtVars, heap, arr, groups, conf, cap, active, activeMu, appender,
                   wg, cancelled, shutdownOnce, now, pc, fn, msg, lr, idx,
                   timestamp, emptyAtCycle, nCalls, placed, flushes, calls>>

NextBatch ==
    \/ BatchDoAppend
    \/ BatchDoFlush
    \/ BatchDoTimestamp

BatchSpec == InitBatch /\ [][NextBatch]_vars

\* ------------------------------------------------------------ formatter alone
\* A Formatter (internal/formatter.go) on which AddValues, FormatInfo and
\* FormatError are called in any order. Keys and values are strings, which
\* assignKeyValue takes as they are.
SeverityWarn4 == 16
SeverityError == 17
NoValue == "<no-value>"
Items == {"a", "b"}
KvLists == UNION {[1..n -> Items] : n \in 0..MaxKv}
Levels == (0 - MaxLevel)..MaxLevel

\* Formatter.attrs: a list of odd length gets NoValue as its last value, and
\* the elements are paired in order.
attrs(kvList) ==
    LET kv == IF Len(kvList) % 2 # 0 THEN Append(kvList, NoValue) ELSE kvList
    IN [i \in 1..((Len(kv) + 1) \div 2) |->
            [Key |-> kv[2 * i - 1], Value |-> kv[2 * i]]]

\* A level that does not raise a negative verbosity to 0.
level_NoFloor(l) ==
    SeverityWarn4 - (IF l > SeverityWarn4 THEN SeverityWarn4 ELSE l)

\* Formatter.level.
level(l) ==
    LET l1 == IF l < 0 THEN 0 ELSE l
        l2 == IF l1 > SeverityWarn4 THEN SeverityWarn4 ELSE l1
    IN SeverityWarn4 - l2

\* The state of the batcher, which a Formatter does not touch.
batcherVars == <<export, heap, arr, groups, ret, conf, cap, active, activeMu, appender,
                 wg, cancelled, shutdownOnce, now, pc, fn, msg, lr, idx,
                 timestamp, emptyAtCycle, nCalls, placed, flushes, calls>>

InitFormat ==
    /\ InitWith([Messages |-> 1, Timeout |-> 0, ExportN |-> 0])
    /\ export = startExport("fn")
    /\ NoStorage
    /\ NewFormatter
    /\ lr = [t \in Threads |-> <<>>]
    /\ pc = [t \in Threads |-> "off"]

\* Formatter.AddValues(kvList).
AddValues ==
    /\ Len(added) < MaxAdds
    /\ \E kvList \in KvLists :
        /\ values' = values \o kvList
        /\ valuesAttr' = attrs(values')
        /\ added' = Append(added, kvList)
    /\ UNCHANGED <<rec, batcherVars>>

\* Formatter.FormatInfo(level, msg, kvList).
FormatInfo ==
    /\ \E l \in Levels, kvList \in KvLists :
        rec' = [op |-> "FormatInfo", level |-> l, sev |-> level(l),
                kv |-> kvList, attrs |-> valuesAttr \o attrs(kvList)]
    /\ UNCHANGED <<values, valuesAttr, added, batcherVars>>

\* Formatter.FormatError(err, msg, kvList).
FormatError ==
    /\ \E kvList \in KvLists :
        rec' = [op |-> "FormatError", level |-> 0, sev |-> SeverityError,
                kv |-> kvList, attrs |-> valuesAttr \o attrs(kvList)]
    /\ UNCHANGED <<values, valuesAttr, added, batcherVars>>

NextFormat ==
    \/ AddValues
    \/ FormatInfo
    \/ FormatError

FormatSpec == InitFormat /\ [][NextFormat]_vars

\* ------------------------------------------------------------ claims
PlacedIds == Ids(placed)
Exported == Flatten(calls)
AllIdle == \A p \in Producers : pc[p] = "idle"
SomeReturned == \E s \in Shutdowners : pc[s] = "returned"
AllReturned == \A s \in Shutdowners : pc[s] = "returned"
CeilDiv(m, k) == (m + k - 1) \div k

\* C1: once Shutdown has returned and every Append call has returned, every
\* record an Append placed into the buffer appears in exactly one export call.
C1_EveryPlacedRecordExportedOnce ==
    (SomeReturned /\ AllIdle) =>
        \A k \in 1..Len(PlacedIds) : Count(Exported, PlacedIds[k]) = 1

\* C2: with Messages = N >= 1 and no Timeout, as long as only Append calls
\* act on the batcher, the flushes are exactly the full groups of N
\* consecutively placed records, each made by the Append that placed the
\* N-th of them, the callback is never entered before N records are placed,
\* and the buffer holds the records placed since the last full group (none
\* right after an N-th Append).
C2_SizeTrigger ==
    (conf.Timeout <= 0 /\ conf.Messages >= 1 /\ shutdownOnce = "fresh") =>
        LET N == conf.Messages
            n == Len(placed)
        IN /\ Len(flushes) = n \div N
           /\ \A k \in 1..Len(flushes) :
                /\ flushes[k].by = "append"
                /\ flushes[k].recs = SubSeq(PlacedIds, (k - 1) * N + 1, k * N)
           /\ Ids(active) = SubSeq(PlacedIds, (n \div N) * N + 1, n)
           /\ (n < N => calls = <<>>)
           /\ \A k \in 1..Len(calls) : calls[k].by = "append"
           /\ IsPrefix(Exported, Flatten(flushes))

C2_Witness ==
    /\ conf.Timeout <= 0 /\ conf.Messages = 2 /\ shutdownOnce = "fresh"
    /\ Len(placed) = 2 /\ Len(flushes) = 1 /\ active = <<>>
    /\ Exported = PlacedIds
    /\ AllIdle

\* M records with 1 <= M < Messages were appended before the drain of
\* Shutdown, and every call of Shutdown and of Append has returned. (A record
\* stored after the drain is still in the buffer, which fewer than Messages
\* records never fill, or was flushed after the drain by the poller.)
C3_Scenario ==
    /\ AllReturned
    /\ AllIdle
    /\ Len(placed) >= 1
    /\ Len(placed) < conf.Messages
    /\ active = <<>>
    /\ flushes # <<>>
    /\ flushes[Len(flushes)].by = "shutdown"

\* C3 as stated: exactly one export call is made in total, with all M records.
C3_OneExportCall ==
    C3_Scenario => (Len(calls) = 1 /\ calls[1].recs = PlacedIds)

\* The calls of the export callback made for the k-th flush.
CallsOf(k) == SelectSeq(calls, LAMBDA c : c.flush = k)

\* The number of callback calls that deliver a flush of n records.
CallsFor(n) == IF Chunked THEN CeilDiv(n, conf.ExportN) ELSE 1

\* C3 as amended: the drain flush of Shutdown runs exactly once; the M
\* records are flushed and exported exactly once, in append order, by the
\* drain or by flushes the poller made before it; the poller never flushes
\* an empty buffer; a flush of n records is delivered in one export call when
\* ExportN <= 0 (also when n = 0) and in ceil(n/ExportN) calls otherwise; and
\* without a Timeout the drain is the only flush, so that with ExportN <= 0
\* there is exactly one export call and it carries all M records.
C3_OneDrain ==
    C3_Scenario =>
        /\ Len(By(flushes, "shutdown")) = 1
        /\ flushes[Len(flushes)].by = "shutdown"
        /\ \A k \in 1..(Len(flushes) - 1) :
                flushes[k].by = "poll" /\ flushes[k].recs # <<>>
        /\ Flatten(flushes) = PlacedIds
        /\ Exported = PlacedIds
        /\ \A k \in 1..Len(flushes) :
                /\ Len(CallsOf(k)) = CallsFor(Len(flushes[k].recs))
                /\ Flatten(CallsOf(k)) = flushes[k].recs
        /\ conf.Timeout <= 0 => Len(flushes) = 1
        /\ (conf.Timeout <= 0 /\ ~Chunked) =>
                (Len(calls) = 1 /\ calls[1].recs = PlacedIds)

\* Two records were appended and drained by the first of two Shutdown calls.
C3_Witness ==
    /\ C3_Scenario
    /\ Len(placed) = 2
    /\ By(flushes, "shutdown")[1].recs = PlacedIds

\* C4: after a call of Shutdown has returned the export callback is never
\* entered again.
C4_NoExportAfterShutdown == [][SomeReturned => calls' = calls]_vars

\* The groups a buffer can hold: no record id twice.
RecordIds == 1..MaxRecords
Groups ==
    {g \in UNION {[1..m -> RecordIds] : m \in 1..MaxRecords} :
        \A i, j \in 1..Len(g) : g[i] = g[j] => i = j}

\* The buffer holds the group g, no Append is in progress, the poller runs,
\* and the clock of the model has at least one Timeout left.
C5_Waiting(g) ==
    /\ Ids(active) = g
    /\ AllIdle
    /\ pc[Poller] # "start"
    /\ now + conf.Timeout <= MaxTime

\* The poller has flushed exactly the group g in one flush.
C5_Flushed(g) ==
    \E k \in 1..Len(flushes) : flushes[k] = [by |-> "poll", recs |-> g]

\* C5 as stated: the poller hands a stale batch to the export callback in one
\* call that carries the whole batch.
C5_OneExportCall ==
    \A k \in 1..Len(calls) :
        calls[k].by = "poll" => calls[k].recs = flushes[calls[k].flush].recs

\* C5 as amended: records left in the buffer with no Append in progress are
\* eventually flushed by the poller, all of them in one flush, unless a new
\* Append begins first; the poller never flushes an empty buffer and no record
\* is exported twice; the flush is delivered in one export call when
\* ExportN <= 0 and in ceil(k/ExportN) calls otherwise.
C5_StaleBatchFlushedOnce ==
    /\ \A g \in Groups : C5_Waiting(g) ~> (~AllIdle \/ C5_Flushed(g))
    /\ [](\A k \in 1..Len(flushes) :
            flushes[k].by = "poll" =>
                /\ flushes[k].recs # <<>>
                /\ Flatten(CallsOf(k)) = flushes[k].recs
                        \/ (pc[Poller] \in {"export", "incall"}
                                /\ k = Len(flushes)
                                /\ IsPrefix(Flatten(CallsOf(k)), flushes[k].recs))
                /\ Len(CallsOf(k)) <= CallsFor(Len(flushes[k].recs)))
    /\ [](\A k \in 1..Len(Exported) : Count(Exported, Exported[k]) = 1)

\* The poller flushed two records in one flush and has since found the buffer
\* empty.
C5_Witness ==
    /\ \E k \in 1..Len(flushes) :
            flushes[k].by = "poll" /\ Len(flushes[k].recs) = 2
    /\ active = <<>>
    /\ AllIdle
    /\ pc[Poller] = "loop"
    /\ timestamp = ZeroTime

\* C6: with Messages 0 or 1 the buffer has capacity 1 and every record placed
\* is flushed alone by the Append that placed it, which enters the callback
\* with exactly that record.
C6_Unbatched ==
    (conf.Messages <= 1) =>
        /\ cap = 1
        /\ active = <<>>
        /\ Len(By(flushes, "append")) = Len(placed)
        /\ \A k \in 1..Len(placed) :
                By(flushes, "append")[k].recs = <<PlacedIds[k]>>
        /\ \A k \in 1..Len(By(calls, "append")) :
                By(calls, "append")[k].recs = <<PlacedIds[k]>>
        /\ Len(By(calls, "append")) =
                Len(placed) - Cardinality({p \in Producers : pc[p] = "export"})

C6_Witness ==
    /\ conf.Messages = 0
    /\ Len(placed) = 2
    /\ Len(By(calls, "append")) = 2
    /\ calls[1].recs # calls[2].recs

\* C7: chunk(K, f) on a group of M records has, when it returns, called f
\* ceil(M/K) times on consecutive sub-groups, all of length K but the last,
\* which has length M mod K (K when K divides M), and the sub-groups
\* concatenated in call order are the group; while it runs the calls made so
\* far are a prefix of it.
C7_Chunk ==
    LET K == conf.ExportN
        M == Len(lr[Chunker])
    IN /\ IsPrefix(Exported, Ids(lr[Chunker]))
       /\ \A k \in 1..(Len(calls) - 1) : Len(calls[k].recs) = K
       /\ pc[Chunker] = "done" =>
            /\ Len(calls) = CeilDiv(M, K)
            /\ Exported = Ids(lr[Chunker])
            /\ M > 0 => Len(calls[Len(calls)].recs) =
                            (IF M % K = 0 THEN K ELSE M % K)

\* chunk(10, f) on 25 records has made calls of 10, 10 and 5 records.
C7_Witness ==
    /\ pc[Chunker] = "done"
    /\ conf.ExportN = 10
    /\ Len(lr[Chunker]) = 25
    /\ [k \in 1..Len(calls) |-> Len(calls[k].recs)] = <<10, 10, 5>>

\* C8: with ExportN = K > 0 no call of the export callback carries more than
\* K records, whichever thread made the flush.
C8_ChunkBound ==
    conf.ExportN > 0 =>
        \A k \in 1..Len(calls) : Len(calls[k].recs) <= conf.ExportN

\* A flush of two records was delivered in two calls.
C8_Witness ==
    /\ conf.ExportN = 1
    /\ \E k \in 1..Len(flushes) : Len(flushes[k].recs) = 2
    /\ Len(calls) = 2

\* C9: a thread that is about to enter, or is inside, the export callback
\* holds the buffer lock, and at most one thread is inside the callback.
C9_ExportSerialized ==
    /\ \A t \in Threads : pc[t] \in {"export", "incall"} => activeMu = t
    /\ Cardinality({t \in Threads : pc[t] = "incall"}) <= 1

\* A producer is inside the callback while the poller and Shutdown both wait
\* for the lock.
C9_Witness ==
    /\ \E p \in Producers : pc[p] = "incall"
    /\ pc[Poller] = "reset"
    /\ \E s \in Shutdowners : pc[s] = "lock"

\* C10: the records exported so far, in the order of the export calls, are a
\* prefix of the records in the order batch.Append stored them, and once
\* Shutdown has returned and no Append is in progress they are all of them.
C10_ExportedInAppendOrder ==
    /\ IsPrefix(Exported, PlacedIds)
    /\ (SomeReturned /\ AllIdle) => Exported = PlacedIds

\* The positions of a thread inside the body of shutdown (lines 156-174).
BodyPcs == {"store", "lock", "export", "incall", "unlock", "cancel", "wait"}
InBody == {s \in Shutdowners : pc[s] \in BodyPcs}

\* The flushes made by shutdown's drain, as indices into flushes.
Drains == {k \in 1..Len(flushes) : flushes[k].by = "shutdown"}

\* C11: whatever the number of Shutdown calls, the body of shutdown runs at
\* most once and in one caller at a time, and once any call of Shutdown has
\* returned the body has run exactly once and to its end: the appender is the
\* no-op, the drain flush was made and delivered, the poller's context is
\* cancelled and b.wg.Wait() has returned.
C11_ShutdownOnce ==
    /\ Cardinality(Drains) <= 1
    /\ Cardinality(InBody) <= 1
    /\ (shutdownOnce = "running") <=> (InBody # {})
    /\ shutdownOnce = "fresh" =>
            (appender = "append" /\ ~cancelled /\ Drains = {} /\ ~SomeReturned)
    /\ SomeReturned =>
        /\ shutdownOnce = "done"
        /\ appender = "noop"
        /\ cancelled
        /\ Cardinality(Drains) = 1
        /\ \A k \in Drains :
                /\ Len(CallsOf(k)) = CallsFor(Len(flushes[k].recs))
                /\ Flatten(CallsOf(k)) = flushes[k].recs

\* Both callers of Shutdown have returned, the drain carried a record and the
\* poller was stopped.
C11_Witness ==
    /\ AllReturned
    /\ pc[Poller] = "stopped"
    /\ \E k \in Drains : flushes[k].recs # <<>>
    /\ By(calls, "shutdown") # <<>>

\* C12: once a call of Shutdown has returned the poller goroutine, if there
\* is one, has returned.
C12_PollerExitedAtReturn ==
    SomeReturned => pc[Poller] \in {"off", "stopped"}

\* C13: an Append that begins once the no-op is stored loads the no-op, and a
\* call that loaded the no-op holds no lock and returns in one step that
\* changes neither the buffer, nor the lock, nor the poller, nor the flushes
\* and export calls.
C13_NoopAppend ==
    /\ [](\A p \in Producers :
            fn[p] = "noop" => (pc[p] = "call" /\ activeMu # p))
    /\ [][\A p \in Producers :
            (appender = "noop" /\ pc[p] = "idle" /\ pc'[p] # "idle") =>
                fn'[p] = "noop"]_vars
    /\ [][\A p \in Producers :
            (fn[p] = "noop" /\ pc'[p] # pc[p]) =>
                /\ pc'[p] = "idle"
                /\ UNCHANGED <<cap, active, activeMu, appender, wg, cancelled,
                               shutdownOnce, now, lr, idx, timestamp,
                               emptyAtCycle, placed, flushes, calls>>]_vars

\* Two Append calls were made after the swap and have returned; nothing was
\* ever placed in the buffer.
C13_Witness ==
    /\ appender = "noop"
    /\ nCalls >= 2
    /\ placed = <<>>
    /\ AllIdle
    /\ SomeReturned

\* C14: while shutdown holds the buffer lock no Append that loaded the
\* default append path is still waiting to enter its critical section.
C14_NoPendingAppendAtDrain ==
    \A s \in Shutdowners :
        activeMu = s =>
            \A p \in Producers : ~(pc[p] = "call" /\ fn[p] = "append")

\* C15: a nil record never gets past the test of line 140: no Append call in
\* progress carries it, and it is never in the buffer, among the records
\* placed, or in a group handed to the export callback; the call itself
\* (AppendNil) changes nothing.
C15_NilDropped ==
    /\ \A p \in Producers : pc[p] # "idle" => msg[p] # Nil
    /\ \A k \in 1..Len(active) : active[k] # Nil
    /\ \A k \in 1..Len(placed) : placed[k].id # Nil.id
    /\ \A k \in 1..Len(Exported) : Exported[k] # Nil.id

\* Append(nil) can be called while the buffer holds a record, the poller
\* waits for its deadline and another Append waits for the lock.
C15_Witness ==
    /\ \E p \in Producers : FirstIdle(p, ProducerSeq)
    /\ active # <<>>
    /\ pc[Poller] = "wait"
    /\ \E p \in Producers : pc[p] = "call"

\* A step in which the poller flushes the buffer.
PollFlushes == flushes' # flushes /\ flushes'[Len(flushes')].by = "poll"

\* A step in which the poller ends the staleness check of reset.
PollDecides == pc[Poller] = "reset" /\ pc'[Poller] # "reset"

Later(a, b) == IF a > b THEN a ELSE b

C18_NoPollerWithoutTimeout ==
    conf.Timeout <= 0 =>
        /\ pc[Poller] = "off"
        /\ wg = 0
        /\ timestamp = ZeroTime
        /\ \A k \in 1..Len(flushes) :
                /\ flushes[k].by \in {"append", "shutdown"}
                /\ flushes[k].by = "append" =>
                        Len(flushes[k].recs) = start(conf).Messages
        /\ \A k \in 1..Len(calls) : calls[k].by \in {"append", "shutdown"}
        /\ shutdownOnce = "fresh" => Len(active) < start(conf).Messages

\* Without a poller a record has stayed in a buffer that is not full until
\* the end of the clock, and nothing was exported.
C18_Witness ==
    /\ conf.Timeout <= 0
    /\ now = MaxTime
    /\ active # <<>>
    /\ Timestamp(active) = StartTime
    /\ AllIdle
    /\ calls = <<>>

\* C19: with ExportN <= 0 a flush is delivered in one call of the export
\* callback, made by the thread that flushed and carrying the whole flushed
\* group, also when the group is empty.
C19_WholeGroupInOneCall ==
    conf.ExportN <= 0 =>
        \A k \in 1..Len(flushes) :
            /\ Len(CallsOf(k)) <= 1
            /\ \A j \in 1..Len(CallsOf(k)) : 
                    /\ CallsOf(k)[j].recs = flushes[k].recs
                    /\ CallsOf(k)[j].by = flushes[k].by
            /\ (k < Len(flushes) \/ \A t \in Threads : pc[t] # "export") =>
                    Len(CallsOf(k)) = 1

\* A flush of two records was delivered in one call, and so was the empty
\* drain of Shutdown after it.
C19_Witness ==
    /\ conf.ExportN <= 0
    /\ Len(flushes) = 2
    /\ Len(flushes[1].recs) = 2
    /\ flushes[2] = [by |-> "shutdown", recs |-> <<>>]
    /\ Len(calls) = 2
    /\ calls[1].recs = flushes[1].recs

\* C20: every call of the export callback carries at least one record.
C20_NoEmptyExport == \A k \in 1..Len(calls) : calls[k].recs # <<>>

\* C21: under fair scheduling and with an export callback that returns, every
\* Append call in progress returns, every Shutdown call in progress returns,
\* and the body of shutdown, on which the other callers of Shutdown wait,
\* runs to its end, with and without a poller.
C21_EveryCallReturns ==
    /\ \A p \in Producers : (pc[p] # "idle") ~> (pc[p] = "idle")
    /\ \A s \in Shutdowners :
            (pc[s] \notin {"idle", "returned"}) ~> (pc[s] = "returned")
    /\ (shutdownOnce = "running") ~> (shutdownOnce = "done")

\* Shutdown has cancelled the poller and waits for it, while the poller and
\* an Append both wait for the buffer lock that another Append holds inside
\* the export callback.
C21_Witness ==
    /\ conf.Timeout > 0
    /\ \E s \in Shutdowners : pc[s] = "wait"
    /\ wg = 1
    /\ pc[Poller] = "reset"
    /\ \E p \in Producers : pc[p] = "incall"
    /\ \E p \in Producers : pc[p] = "call" /\ fn[p] = "append"

\* C22: whatever Append and Flush calls follow on the same batch, a group
\* Flush returned reads as it did when it was returned; the batch keeps its
\* backing array over a Flush, and what it holds is the start of that array.
C22_FlushedGroupIndependent ==
    /\ \A k \in 1..Len(groups) : GroupContents(groups[k]) = groups[k].was
    /\ active = SubSeq(heap[arr], 1, Len(active))
    /\ cap = Len(heap[arr])

\* A group of two records was returned by Flush, and a later Append has
\* written another record over the first slot of the backing array, which
\* the batch has kept.
C22_Witness ==
    /\ Len(groups) >= 1
    /\ Len(groups[1].was) = 2
    /\ arr = 1
    /\ Len(active) = 1
    /\ active[1] # groups[1].was[1]
    /\ heap[arr][1] = active[1]

\* C23: a staleness check that finds the buffer empty, or its first record
\* younger than the reference, flushes nothing and leaves the current time as
\* the reference, so that the next deadline is Timeout from now.
C23_SkipAdvancesToNow ==
    [][(PollDecides /\ ResetSkips(Timestamp(active), timestamp)) =>
        /\ UNCHANGED <<active, flushes, calls>>
        /\ timestamp' = now
        /\ Deadline' = now + conf.Timeout]_vars

\* C24: a staleness check that finds the buffer non-empty and its first
\* record older than the reference takes the lock and flushes the whole
\* buffer in one flush, leaving it empty; the poller keeps the lock, and the
\* buffer stays empty, until the group is delivered; it then makes the
\* current time its reference, releases the lock and waits for the next
\* deadline.
C24_StaleBufferFlushed ==
    /\ [][(PollDecides /\ active # <<>> /\ Timestamp(active) < timestamp) =>
            /\ activeMu' = Poller
            /\ flushes' = Append(flushes, [by |-> "poll", recs |-> Ids(active)])
            /\ lr'[Poller] = active
            /\ active' = <<>>]_vars
    /\ [](pc[Poller] \in {"export", "incall", "unlock"} =>
            /\ activeMu = Poller
            /\ active = <<>>
            /\ flushes[Len(flushes)] = [by |-> "poll", recs |-> Ids(lr[Poller])])
    /\ [](pc[Poller] = "unlock" =>
            Flatten(CallsOf(Len(flushes))) = Ids(lr[Poller]))
    /\ [][(pc[Poller] = "unlock" /\ pc'[Poller] # "unlock") =>
            /\ timestamp' = now
            /\ activeMu' = NoThread
            /\ active' = <<>>
            /\ pc'[Poller] = "loop"]_vars
    /\ [][(pc[Poller] = "loop" /\ pc'[Poller] # "loop" /\ ~cancelled) =>
            pc'[Poller] = (IF now >= timestamp + conf.Timeout
                           THEN "reset" ELSE "wait")]_vars

\* The poller is delivering a buffer of two records whose first record is
\* older than the reference.
C24_Witness ==
    /\ pc[Poller] = "incall"
    /\ Len(lr[Poller]) = 2
    /\ Timestamp(lr[Poller]) < timestamp
    /\ now >= timestamp + conf.Timeout

\* C25: the poller returns only once b.cancel() has been called; a poller
\* that has returned stays so, never holds the buffer lock and makes no
\* further flush or export call; and under fair scheduling a poller whose
\* context is cancelled eventually returns.
C25_PollerStopsOnlyOnCancel ==
    /\ [](pc[Poller] = "stopped" => (cancelled /\ activeMu # Poller /\ wg = 0))
    /\ [][pc[Poller] = "stopped" =>
            /\ pc'[Poller] = "stopped"
            /\ activeMu' # Poller
            /\ By(flushes', "poll") = By(flushes, "poll")
            /\ By(calls', "poll") = By(calls, "poll")]_vars
    /\ [][(pc[Poller] # "stopped" /\ pc'[Poller] = "stopped") =>
            (cancelled /\ pc[Poller] \in {"loop", "wait"})]_vars
    /\ (cancelled /\ pc[Poller] # "off") ~> (pc[Poller] = "stopped")

\* The poller has made a flush and then returned on the cancellation, and a
\* record placed by a late Append stays in the buffer.
C25_Witness ==
    /\ pc[Poller] = "stopped"
    /\ By(flushes, "poll") # <<>>
    /\ active # <<>>
    /\ AllIdle
    /\ AllReturned

\* The drain flush has been made and wholly delivered to the callback.
DrainDelivered ==
    /\ Cardinality(Drains) = 1
    /\ \A k \in Drains :
            /\ Len(CallsOf(k)) = CallsFor(Len(flushes[k].recs))
            /\ Flatten(CallsOf(k)) = flushes[k].recs

\* C26: the body of shutdown runs in this order: the appender is the no-op
\* before the drain flush is made; the drain is made and delivered under the
\* lock, and the lock released, before b.cancel() is called; and the wait for
\* the poller begins, and Shutdown returns, only after b.cancel().
C26_ShutdownOrder ==
    /\ [](\A s \in Shutdowners :
            /\ pc[s] = "store" => (Drains = {} /\ ~cancelled)
            /\ pc[s] = "lock" =>
                    (appender = "noop" /\ Drains = {} /\ ~cancelled)
            /\ pc[s] \in {"export", "incall", "unlock"} =>
                    /\ appender = "noop"
                    /\ activeMu = s
                    /\ Cardinality(Drains) = 1
                    /\ ~cancelled
            /\ pc[s] = "cancel" =>
                    (DrainDelivered /\ activeMu # s /\ ~cancelled)
            /\ pc[s] \in {"wait", "returned"} =>
                    (appender = "noop" /\ DrainDelivered /\ cancelled))
    /\ [][Drains' # Drains =>
            (appender = "noop" /\ ~cancelled /\ activeMu' \in Shutdowners)]_vars
    /\ [][(cancelled' /\ ~cancelled) =>
            /\ appender = "noop"
            /\ DrainDelivered
            /\ activeMu \notin Shutdowners
            /\ \E s \in Shutdowners : pc[s] = "cancel" /\ pc'[s] = "wait"]_vars

\* Shutdown waits for a poller that is still running; the drain carried two
\* records and was delivered before the cancellation.
C26_Witness ==
    /\ \E s \in Shutdowners : pc[s] = "wait"
    /\ wg = 1
    /\ Cardinality(Drains) = 1
    /\ \A k \in Drains : Len(flushes[k].recs) = 2
    /\ Len(By(calls, "shutdown")) >= 1
    /\ pc[Poller] \in {"wait", "reset"}

\* C27: the batcher's buffer never holds more records than its capacity,
\* fewer whenever no thread holds the lock, and its capacity is always the
\* one newBatch gave it, whatever Append, the poller and Shutdown do.
C27_CapacityFixed ==
    /\ Len(active) <= cap
    /\ activeMu = NoThread => Len(active) < cap
    /\ cap = newBatch(IF conf.Messages = 0 THEN 1 ELSE conf.Messages)

\* A buffer of capacity 2 was flushed by the poller and drained by Shutdown,
\* and holds a record a late Append placed after the drain.
C27_Witness ==
    /\ cap = 2
    /\ \E k \in 1..Len(flushes) :
            flushes[k].by = "poll" /\ Len(flushes[k].recs) = 1
    /\ Drains # {}
    /\ Len(active) = 1
    /\ activeMu = NoThread

\* A step in which Flush is called on the batch followed on its own.
FlushStep == Len(groups') = Len(groups) + 1

\* C28: Flush returns the records the batch held when it was called, oldest
\* first, in an array that reads so on return, and leaves the batch empty
\* with the capacity and the backing array it had; a Flush that follows a
\* Flush with no Append in between returns an empty group.
C28_FlushReturnsHeld ==
    /\ [][FlushStep =>
            /\ ret' = [op |-> "Flush", arg |-> Nil, val |-> active]
            /\ LET g == groups'[Len(groups')]
               IN SubSeq(heap'[g.arr], 1, g.len) = active
            /\ active' = <<>>
            /\ BatchLen(active') = 0
            /\ cap' = cap
            /\ arr' = arr]_vars
    /\ [](ret.op = "Flush" => active = <<>>)
    /\ [][(FlushStep /\ ret.op = "Flush") => ret'.val = <<>>]_vars

\* Flush returned two records, oldest first, and a second Flush right after
\* it returned an empty group.
C28_Witness ==
    /\ ret.op = "Flush"
    /\ Len(groups) = 2
    /\ Ids(groups[1].was) = <<1, 2>>
    /\ groups[2].was = <<>>
    /\ cap = 2

\* A step in which Append is called on the batch followed on its own.
AppendStep == nCalls' = nCalls + 1

\* C29: batch.Append leaves the records held as they were and the new record
\* after them, and returns true exactly when the batch then holds as many
\* records as its capacity; the capacity changes only when the batch was
\* already full.
C29_AppendAddsLast ==
    [][AppendStep =>
        /\ ret'.op = "Append"
        /\ active' = Append(active, ret'.arg)
        /\ Len(active') = Len(active) + 1
        /\ ret'.val = (Len(active') = cap')
        /\ cap' = Len(heap'[arr'])
        /\ SubSeq(heap'[arr'], 1, Len(active')) = active'
        /\ Len(active) < cap => (cap' = cap /\ arr' = arr)]_vars

\* A second Append has filled a batch of capacity 2 and returned true, after
\* a first one that returned false.
C29_Witness ==
    /\ ret.op = "Append"
    /\ ret.val = TRUE
    /\ Ids(active) = <<1, 2>>
    /\ cap = 2
    /\ arr = 1
    /\ groups = <<>>

\* C30: Timestamp returns the zero time exactly when the batch is empty, and
\* otherwise the instant the timestamp field of the first record denotes,
\* which is the instant the record was created at when the field was set as
\* the formatter sets it; an Append to a batch that holds a record does not
\* change it.
C30_TimestampOfOldest ==
    /\ [](ret.op = "Timestamp" =>
            /\ (ret.val = ZeroTime) <=> (active = <<>>)
            /\ active # <<>> =>
                    /\ ret.val \in Instants
                    /\ ToUint64(ret.val) = active[1].ts)
    /\ [](\A t \in Instants :
            Timestamp(<<[id |-> 1, ts |-> ToUint64(t)]>> \o active) = t)
    /\ [][(AppendStep /\ active # <<>>) =>
            Timestamp(active') = Timestamp(active)]_vars

\* Timestamp was called on a batch of two records with different times and
\* returned the time of the first, an instant before the epoch.
C30_Witness ==
    /\ ret.op = "Timestamp"
    /\ Len(active) = 2
    /\ active[1].ts # active[2].ts
    /\ ret.val = ToInt64(active[1].ts)
    /\ ret.val < 0

\* C31: while the poller delivers a batch it flushed, and until it releases
\* the lock, at least Timeout has elapsed since the creation timestamp of the
\* first record of that batch.
C31_PollerExportsOnlyAged ==
    (pc[Poller] \in {"export", "incall", "unlock"} /\ lr[Poller] # <<>>) =>
        /\ flushes[Len(flushes)] = [by |-> "poll", recs |-> Ids(lr[Poller])]
        /\ Timestamp(lr[Poller]) + conf.Timeout <= now

\* The poller is delivering a batch of two records: Timeout has elapsed
\* since the first was created and not since the second was.
C31_Witness ==
    /\ pc[Poller] = "incall"
    /\ Len(lr[Poller]) = 2
    /\ Timestamp(lr[Poller]) + conf.Timeout <= now
    /\ ToInt64(lr[Poller][2].ts) + conf.Timeout > now

\* C32: a staleness check that finds the first record of the buffer stamped
\* with exactly the reference timestamp does not skip: it takes the lock and
\* flushes the whole buffer.
C32_EqualTimestampFlushed ==
    [][(PollDecides /\ active # <<>> /\ Timestamp(active) = timestamp) =>
        /\ PollFlushes
        /\ flushes'[Len(flushes')].recs = Ids(active)
        /\ Len(flushes') = Len(flushes) + 1
        /\ active' = <<>>
        /\ activeMu' = Poller
        /\ timestamp' = timestamp]_vars

\* The poller is delivering a batch whose first record was created at the
\* very instant of the reference, which is later than the start.
C32_Witness ==
    /\ pc[Poller] = "incall"
    /\ lr[Poller] # <<>>
    /\ Timestamp(lr[Poller]) = timestamp
    /\ timestamp > StartTime

\* C33: whenever no thread holds the buffer lock the buffer holds fewer
\* records than its capacity; a flush made by an Append carries as many
\* records as the capacity, and the buffer is empty for as long as the thread
\* that flushed it delivers the group under the lock.
C33_FullBufferNotObservable ==
    /\ activeMu = NoThread => BatchLen(active) < cap
    /\ \A k \in 1..Len(flushes) :
            flushes[k].by = "append" => Len(flushes[k].recs) = cap
    /\ \A t \in Threads :
            pc[t] \in {"export", "incall"} => (activeMu = t /\ active = <<>>)

\* A buffer of capacity 2 was filled by two Append calls and flushed by the
\* second; the lock is free again and the buffer empty.
C33_Witness ==
    /\ cap = 2
    /\ activeMu = NoThread
    /\ Len(By(flushes, "append")) = 1
    /\ Len(By(calls, "append")) >= 1
    /\ active = <<>>
    /\ AllIdle
    /\ shutdownOnce = "fresh"

\* The threads that are delivering a flushed group to the callback.
Exporting == {t \in Threads : pc[t] \in {"export", "incall"}}

\* C34: with ExportN > 0 the calls of the callback that deliver one flushed
\* group are consecutive and in the group's order, and from the flush to the
\* last of them the flushing thread holds the lock: no record is placed in
\* the buffer, no other flush is made and no call is made for another flush.
C34_ChunksConsecutive ==
    /\ [](conf.ExportN > 0 =>
            /\ \A j, k \in 1..Len(calls) :
                    j <= k => calls[j].flush <= calls[k].flush
            /\ \A k \in 1..Len(flushes) :
                    /\ IsPrefix(Flatten(CallsOf(k)), flushes[k].recs)
                    /\ \A j \in 1..Len(CallsOf(k)) :
                            CallsOf(k)[j].by = flushes[k].by
            /\ \A t \in Exporting :
                    /\ activeMu = t
                    /\ Exporting = {t}
                    /\ flushes[Len(flushes)].recs = Ids(lr[t]))
    /\ [][(conf.ExportN > 0 /\ Exporting # {}) =>
            /\ placed' = placed
            /\ active' = active
            /\ flushes' = flushes
            /\ \A k \in (Len(calls) + 1)..Len(calls') :
                    calls'[k].flush = Len(flushes)]_vars

\* With ExportN = 1 a producer is inside the second call for the group of
\* two records it flushed, while the poller and Shutdown wait for the lock.
C34_Witness ==
    /\ conf.ExportN = 1
    /\ \E p \in Producers :
            pc[p] = "incall" /\ Len(lr[p]) = 2 /\ idx[p] = 1
    /\ Len(calls) = 2
    /\ pc[Poller] = "reset"
    /\ \E s \in Shutdowners : pc[s] = "lock"

\* The smaller and the larger of two integers.
Min2(a, b) == IF a < b THEN a ELSE b
Max2(a, b) == IF a > b THEN a ELSE b

\* C35: the severity number of a record FormatInfo made at verbosity l is
\* 16 - min(max(l, 0), 16): 16 at level 0, 14 at level 2, 16 at every
\* negative level and 0 at every level from 16 on; it lies in 0..16 and does
\* not increase with l.
C35_LevelToSeverity ==
    /\ rec.op = "FormatInfo" =>
            /\ rec.sev = 16 - Min2(Max2(rec.level, 0), 16)
            /\ rec.sev \in 0..16
            /\ rec.level = 0 => rec.sev = 16
            /\ rec.level = 2 => rec.sev = 14
            /\ rec.level < 0 => rec.sev = 16
            /\ rec.level >= 16 => rec.sev = 0
    /\ \A a, b \in Levels : a <= b => level(a) >= level(b)

\* FormatInfo was called at a negative level, after an AddValues call, and
\* made a record of severity 16.
C35_Witness ==
    /\ rec.op = "FormatInfo"
    /\ rec.level < 0
    /\ rec.sev = 16
    /\ added # <<>>

\* The pairs of the lists q, each list paired on its own, in order.
RECURSIVE PairsOf(_)
PairsOf(q) ==
    IF q = <<>> THEN <<>>
    ELSE PairsOf(SubSeq(q, 1, Len(q) - 1)) \o attrs(q[Len(q)])

\* C36: the attributes of a record FormatInfo or FormatError makes are the
\* pairs of the lists passed to AddValues so far, list by list in call
\* order, followed by the pairs of the list passed to the call itself.
C36_AttributesAccumulate ==
    [][rec' # rec => rec'.attrs = PairsOf(added) \o attrs(rec'.kv)]_vars

\* C37: a batcher started with a nil export function calls a no-op instead:
\* no thread fails in the call, every flush is delivered to the no-op and
\* leaves the buffer empty, whichever trigger made it, and under fair
\* scheduling every Append call in progress returns and the body of shutdown
\* runs to its end.
C37_NilExporterIsNoop ==
    /\ [](\A t \in Threads : pc[t] # "panic")
    /\ [](\A t \in Threads : pc[t] = "incall" => activeMu = t)
    /\ [][flushes' # flushes =>
            /\ flushes' = Append(flushes,
                                 [by |-> flushes'[Len(flushes')].by,
                                  recs |-> Ids(lr'[activeMu'])])
            /\ active' = <<>>]_vars
    /\ [](SomeReturned => DrainDelivered)
    /\ (\E p \in Producers : pc[p] # "idle") ~> AllIdle
    /\ (shutdownOnce = "running") ~> (shutdownOnce = "done")

\* With a nil export function the poller and then Shutdown have each flushed
\* a record and delivered it to the no-op, and every call has returned.
C37_Witness ==
    /\ export = "noop"
    /\ AllReturned
    /\ AllIdle
    /\ Len(By(calls, "poll")) = 1
    /\ Len(By(calls, "shutdown")) = 1
    /\ \A k \in 1..Len(flushes) : Len(flushes[k].recs) = 1
    /\ active = <<>>

====
